---- MODULE Spec2Model ----
(***************************************************************************)
(* A model of three parts of tinaa-playwright-msp:                         *)
(*   - PlaybookExecutor (src/app/enhanced_mcp_handler.py) and the          *)
(*     ProgressTracker and ProgressContext it reports through              *)
(*     (src/app/progress_tracker.py);                                      *)
(*   - PlaywrightController (src/playwright_controller/controller.py) and  *)
(*     its accessor get_controller (src/app/mcp_handler.py).               *)
(*                                                                         *)
(* Spec         one PlaybookExecutor.execute call on a playbook drawn in   *)
(*              Init                                                       *)
(* SpecCtrl     one PlaywrightController instance, its methods called in   *)
(*              any order                                                  *)
(* SpecLong     the same call on longer playbooks of two kinds of steps    *)
(* SpecRuns     two execute calls on one PlaybookExecutor, taking turns    *)
(*              where they await                                           *)
(* SpecSession  the module's controller: get_controller, initialize, close *)
(*              and the methods that fill the lists and report on them     *)
(* SpecSingleton  get_controller called by two concurrent handlers         *)
(* SpecScope    one ProgressContext scope on a fresh ProgressTracker       *)
(* SpecPhases   the same scope with start_phase and complete_phase calls   *)
(*              in its body                                                *)
(*                                                                         *)
(* Python indices are kept 0-based (idx, step numbers); TLA+ sequences are *)
(* 1-based, so steps[i] of the code is steps[i + 1] here.                  *)
(***************************************************************************)
EXTENDS Integers, Sequences, FiniteSets, TLC

None == "None"

\* ---- bounds ----
MaxSteps == 2
MaxBreakpoints == 2
MaxCalls == 3

\* Two execute calls can exist on one executor; Spec starts only the first,
\* SpecRuns both.
Runs == {1, 2}

(***************************************************************************)
(* Playbooks                                                               *)
(***************************************************************************)

\* The keys of action_map in PlaybookExecutor._execute_step.
ActionMap ==
    {"navigate", "screenshot", "fill_form", "test_exploratory",
     "test_accessibility", "test_responsive", "test_security"}

\* The keys of action_map in http_server.execute_step: the step vocabulary.
Vocabulary ==
    {"navigate", "screenshot", "fill_form", "test_exploratory",
     "test_accessibility", "test_responsive", "test_security",
     "detect_forms", "generate_report"}

\* A URL is its scheme and the rest; "not-a-url" has no scheme.
Url(scheme, rest) == [scheme |-> scheme, rest |-> rest]
GoodUrl == Url("https", "example.com")
PlainUrl == Url("http", "example.com")
NotAUrl == Url("", "not-a-url")
\* params.get("url") of a step without url
NoUrl == Url(None, None)

\* url.startswith(('http://', 'https://')); None has no startswith: the
\* AttributeError is raised inside navigate_to_url's try block.
StartsWithHttp(url) == url.scheme \in {"http", "https"}

\* The steps a playbook is drawn from: every name of the vocabulary, a name in
\* no table, and navigate with a good URL, a bad URL and no URL.
StepChoices ==
    {[action |-> "navigate", url |-> u] : u \in {GoodUrl, NotAUrl, NoUrl}}
    \cup {[action |-> a, url |-> NoUrl] :
            a \in (Vocabulary \ {"navigate"}) \cup {"bogus_action"}}

RECURSIVE SeqsUpTo(_, _)
SeqsUpTo(S, n) ==
    IF n = 0 THEN {<<>>}
    ELSE LET shorter == SeqsUpTo(S, n - 1)
         IN  shorter \cup {Append(s, x) : s \in {t \in shorter : Len(t) = n - 1}, x \in S}

Playbooks ==
    [steps : SeqsUpTo(StepChoices, MaxSteps), stop_on_error : {"true", "false", "absent"}]

\* playbook.get("stop_on_error", True)
StopOnError(pb) == pb.stop_on_error # "false"

\* step.get("id", f"step-{i}"): the drawn steps carry no id.
StepId(i) == <<"step", i>>

VARIABLES
    \* ---- PlaybookExecutor.execute ----
    playbook,      \* the playbook passed to execute
    cbRegistered,  \* _progress_callbacks holds a callback for client_id
    selfTracker,   \* self.tracker: the run that created it, 0 for None
    trackers,      \* run -> the ProgressTracker it created
    pc,            \* run -> where the execute call stands
    idx,           \* run -> i of the for loop
    results,       \* run -> the local list results
    err,           \* run -> str(e) of the exception being handled
    ret,           \* run -> the value execute returned
    calls,         \* run -> history: one record per _execute_step call
    \* ---- PlaywrightController ----
    is_initialized,
    handles,       \* which of playwright, browser, context, page are set
    page_url,      \* page.url
    screenshots,
    findings,
    ncalls,        \* how many controller methods were called
    last,          \* the last method called, with what it returned
    \* ---- one ProgressContext scope on one ProgressTracker ----
    ptracker,      \* the tracker
    delivered,     \* what the callback was invoked with, in invocation order
    issued,        \* history: the update() calls, in call order
    ctx,           \* the ProgressContext: operation_name, total_steps, current_step
    ppc,           \* where the async with statement stands
    bodyExc,       \* the exception the body ended with, NoExc when it ended normally
    scopeExc,      \* the exception that left the async with statement
    stepCalls,     \* history: the increments of the step() calls
    outcomes,      \* history: per tracker call, did the callback fail, did the call raise
    \* ---- get_controller called by concurrent handlers ----
    gctl,          \* the module's global controller: an index of insts, 0 for None
    insts,         \* the PlaywrightController instances, in creation order
    tpc,           \* task -> where its get_controller call stands
    tinst,         \* task -> the instance whose initialize() it awaits
    rets,          \* history: the instances get_controller returned
    ngets          \* how many get_controller calls were made

execVars == <<playbook, cbRegistered, selfTracker, trackers, pc, idx, results, err, ret, calls>>
ctrlVars == <<is_initialized, handles, page_url, screenshots, findings, ncalls, last>>
progVars == <<ptracker, delivered, issued, ctx, ppc, bodyExc, scopeExc, stepCalls, outcomes>>
singVars == <<gctl, insts, tpc, tinst, rets, ngets>>
vars == <<execVars, ctrlVars, progVars, singVars>>

(***************************************************************************)
(* ProgressTracker                                                         *)
(***************************************************************************)

NoProgress == <<>>
\* A percentage num/den*100, kept exact as the pair.
Pct(num, den) == <<num, den>>

\* ProgressTracker.__init__
NewTracker(callback) ==
    [callback |-> callback, updates |-> <<>>, current_phase |-> None,
     phases_completed |-> 0, total_phases |-> 0]

\* ProgressUpdate(message, level, progress, metadata) appended by update().
ProgressUpdate(message, level, progress, metadata) ==
    [message |-> message, level |-> level, progress |-> progress, metadata |-> metadata]

\* The part of ProgressTracker.update before the callback: build and append.
TrackerAppend(t, message, level, progress, metadata) ==
    [t EXCEPT !.updates = Append(@, ProgressUpdate(message, level, progress, metadata))]

\* Whether the callback of tracker t can fail when update() invokes it.
CallbackFailures(t) == IF t.callback THEN {FALSE, TRUE} ELSE {FALSE}

\* progress of start_phase / complete_phase
PhaseProgress(t) ==
    IF t.total_phases > 0 THEN Pct(t.phases_completed, t.total_phases) ELSE NoProgress

\* start_phase: sets current_phase, total_phases only if truthy (an omitted
\* total_phases, None, is passed here as 0: both are falsy), then update().
StartPhase(t, phase_name, total_phases) ==
    LET t1 == [t EXCEPT !.current_phase = phase_name,
                        !.total_phases = IF total_phases # 0 THEN total_phases ELSE @]
    IN  TrackerAppend(t1, <<"Starting phase", phase_name>>, "info", PhaseProgress(t1),
                      [phase |-> phase_name, phases_completed |-> t1.phases_completed,
                       total_phases |-> t1.total_phases])

\* complete_phase: phases_completed += 1, then update().
CompletePhase(t, phase_name) ==
    LET t1 == [t EXCEPT !.phases_completed = @ + 1]
    IN  TrackerAppend(t1, <<"Completed phase", phase_name>>, "success", PhaseProgress(t1),
                      [phase |-> phase_name, phases_completed |-> t1.phases_completed,
                       total_phases |-> t1.total_phases])

\* get_summary (elapsed_time left out: wall-clock)
GetSummary(t) ==
    [total_updates |-> Len(t.updates), phases_completed |-> t.phases_completed,
     total_phases |-> t.total_phases, current_phase |-> t.current_phase,
     updates |-> t.updates]

\* to_dict testing the progress for truth instead of for None.
ToDict_DropsFalsyProgress(u) ==
    LET keys == {"message", "level", "timestamp"}
                \cup (IF u.progress # NoProgress /\ u.progress[1] # 0 THEN {"progress"} ELSE {})
                \cup (IF DOMAIN u.metadata # {} THEN {"metadata"} ELSE {})
    IN  [k \in keys |->
            CASE k = "message" -> u.message
              [] k = "level" -> u.level
              [] k = "timestamp" -> <<"isoformat">>
              [] k = "progress" -> u.progress
              [] k = "metadata" -> u.metadata]

\* ProgressUpdate.to_dict: message, level and timestamp (wall-clock, left
\* abstract), progress if it is not None, metadata if the dict is not empty.
ToDict(u) ==
    LET keys == {"message", "level", "timestamp"}
                \cup (IF u.progress # NoProgress THEN {"progress"} ELSE {})
                \cup (IF DOMAIN u.metadata # {} THEN {"metadata"} ELSE {})
    IN  [k \in keys |->
            CASE k = "message" -> u.message
              [] k = "level" -> u.level
              [] k = "timestamp" -> <<"isoformat">>
              [] k = "progress" -> u.progress
              [] k = "metadata" -> u.metadata]

\* update() recording the newest update first.
TrackerUpdate_NewestFirst(t, d, message, level, progress, metadata) ==
    LET u == ProgressUpdate(message, level, progress, metadata)
    IN  [tracker |-> [t EXCEPT !.updates = <<u>> \o @],
         delivered |-> IF t.callback THEN Append(d, ToDict(u)) ELSE d]

\* update() up to the return or the exception of the callback: the update is
\* appended, then the callback, if set, is invoked with its to_dict(). d is
\* the list of the callback's invocations.
TrackerUpdate(t, d, message, level, progress, metadata) ==
    LET u == ProgressUpdate(message, level, progress, metadata)
    IN  [tracker |-> TrackerAppend(t, message, level, progress, metadata),
         delivered |-> IF t.callback THEN Append(d, ToDict(u)) ELSE d]

\* update() catching what the callback raises.
UpdateRaises_SwallowsCallbackError(t, cbFail) == FALSE

\* Whether update() raises: nothing in it catches what the callback raises, and
\* nothing else in it raises. info, warning, error, success, start_phase and
\* complete_phase end in "await self.update(...)", so they raise when it does.
UpdateRaises(t, cbFail) == t.callback /\ cbFail

(***************************************************************************)
(* ProgressContext: one "async with ProgressContext(tracker, name, n)"     *)
(***************************************************************************)

\* ---- bounds ----
MaxTotalSteps == 3
MaxScopeCalls == 3

OperationName == "Navigation"
NoExc == <<>>
\* The exception a failing callback raises, and the one a body raises.
CallbackError == <<"CallbackError", "callback failed">>
BodyError == <<"ValueError", "boom">>

\* ProgressContext.__init__; a total_steps of None is kept as 0 (both falsy).
NewContext(operation_name, total_steps) ==
    [operation_name |-> operation_name, total_steps |-> total_steps, current_step |-> 0]

\* One update() call issued on ptracker: the log, the callback's invocations
\* and the call history.
Issue(message, level, progress, metadata) ==
    LET r == TrackerUpdate(ptracker, delivered, message, level, progress, metadata)
    IN  /\ ptracker' = r.tracker
        /\ delivered' = r.delivered
        /\ issued' = Append(issued, ProgressUpdate(message, level, progress, metadata))

\* The record of one tracker call: whether its callback failed and whether the
\* call raised to its caller.
Outcome(cbFail) ==
    outcomes' = Append(outcomes, [failed |-> cbFail, raised |-> UpdateRaises(ptracker, cbFail)])

\* The body goes on after a tracker call, or leaves with the exception of the
\* callback, which it may also catch.
AfterBodyCall(cbFail, caught) ==
    /\ Outcome(cbFail)
    /\ IF UpdateRaises(ptracker, cbFail) /\ ~caught
       THEN ppc' = "exit" /\ bodyExc' = CallbackError
       ELSE ppc' = "body" /\ bodyExc' = bodyExc

\* __aenter__: an exception of the callback leaves the statement before the
\* body is entered; __aexit__ is not called.
Aenter(cbFail) ==
    /\ ppc = "new"
    /\ Issue(<<"Starting", ctx.operation_name>>, "info", NoProgress, <<>>)
    /\ Outcome(cbFail)
    /\ IF UpdateRaises(ptracker, cbFail)
       THEN ppc' = "raised" /\ scopeExc' = CallbackError
       ELSE ppc' = "body" /\ scopeExc' = scopeExc
    /\ UNCHANGED <<ctx, bodyExc, stepCalls>>

\* step computing the progress before it advances current_step.
Step_ProgressBeforeIncrement(increment, cbFail, caught) ==
    /\ ppc = "body"
    /\ Len(issued) <= MaxScopeCalls
    /\ LET current_step == ctx.current_step + increment
           progress == IF ctx.total_steps # 0 THEN Pct(ctx.current_step, ctx.total_steps)
                       ELSE NoProgress
       IN  /\ ctx' = [ctx EXCEPT !.current_step = current_step]
           /\ Issue(<<"step message">>, "info", progress,
                    [step |-> current_step, total_steps |-> ctx.total_steps])
    /\ stepCalls' = Append(stepCalls, increment)
    /\ AfterBodyCall(cbFail, caught)
    /\ UNCHANGED scopeExc

\* step(message, increment)
Step(increment, cbFail, caught) ==
    /\ ppc = "body"
    /\ Len(issued) <= MaxScopeCalls
    /\ LET current_step == ctx.current_step + increment
           progress == IF ctx.total_steps # 0 THEN Pct(current_step, ctx.total_steps)
                       ELSE NoProgress
       IN  /\ ctx' = [ctx EXCEPT !.current_step = current_step]
           /\ Issue(<<"step message">>, "info", progress,
                    [step |-> current_step, total_steps |-> ctx.total_steps])
    /\ stepCalls' = Append(stepCalls, increment)
    /\ AfterBodyCall(cbFail, caught)
    /\ UNCHANGED scopeExc

\* The body calling the tracker itself: warning(message, **metadata),
\* info(message, progress) or update(message, DEBUG).
BodyUpdates ==
    {[level |-> "warning", progress |-> NoProgress, metadata |-> [issue_type |-> "alt"]],
     [level |-> "info", progress |-> Pct(0, 1), metadata |-> <<>>],
     [level |-> "info", progress |-> Pct(1, 1), metadata |-> [issue_type |-> "alt"]],
     [level |-> "debug", progress |-> NoProgress, metadata |-> <<>>]}

BodyUpdate(u, cbFail, caught) ==
    /\ ppc = "body"
    /\ Len(issued) <= MaxScopeCalls
    /\ Issue(<<"body message">>, u.level, u.progress, u.metadata)
    /\ AfterBodyCall(cbFail, caught)
    /\ UNCHANGED <<ctx, scopeExc, stepCalls>>

\* One start_phase or complete_phase call on ptracker, t1 the tracker it
\* leaves: its update is the last of the log.
IssuePhase(t1) ==
    LET u == t1.updates[Len(t1.updates)]
    IN  /\ ptracker' = t1
        /\ delivered' = IF ptracker.callback THEN Append(delivered, ToDict(u)) ELSE delivered
        /\ issued' = Append(issued, u)

PhaseName == "Crawl"
\* total_phases as a caller passes it; 0 stands for the omitted argument.
TotalPhasesChoices == {0, 1, 2}

\* The body calling start_phase(phase_name, total_phases).
BodyStartPhase(total_phases, cbFail, caught) ==
    /\ ppc = "body"
    /\ Len(issued) <= MaxScopeCalls
    /\ IssuePhase(StartPhase(ptracker, PhaseName, total_phases))
    /\ AfterBodyCall(cbFail, caught)
    /\ UNCHANGED <<ctx, scopeExc, stepCalls>>

\* The body calling complete_phase(phase_name).
BodyCompletePhase(cbFail, caught) ==
    /\ ppc = "body"
    /\ Len(issued) <= MaxScopeCalls
    /\ IssuePhase(CompletePhase(ptracker, PhaseName))
    /\ AfterBodyCall(cbFail, caught)
    /\ UNCHANGED <<ctx, scopeExc, stepCalls>>

\* The body ends, normally or with an exception of its own.
BodyEnd(exc) ==
    /\ ppc = "body"
    /\ ppc' = "exit"
    /\ bodyExc' = exc
    /\ UNCHANGED <<ptracker, delivered, issued, ctx, scopeExc, stepCalls, outcomes>>

\* __aexit__: the error or the success update; it returns None, so the body's
\* exception goes on to the caller, unless the callback raises in the update.
Aexit(cbFail) ==
    /\ ppc = "exit"
    /\ IF bodyExc # NoExc
       THEN Issue(<<"Error in", ctx.operation_name, bodyExc>>, "error", NoProgress,
                  [exception |-> bodyExc])
       ELSE Issue(<<"Completed", ctx.operation_name>>, "success", NoProgress, <<>>)
    /\ Outcome(cbFail)
    /\ ppc' = "left"
    /\ scopeExc' = IF UpdateRaises(ptracker, cbFail) THEN CallbackError ELSE bodyExc
    /\ UNCHANGED <<ctx, bodyExc, stepCalls>>

\* The scope's variables while another part of the program is looked at.
ProgIdle ==
    /\ ptracker = NewTracker(FALSE)
    /\ delivered = <<>>
    /\ issued = <<>>
    /\ ctx = NewContext(OperationName, 0)
    /\ ppc = "idle"
    /\ bodyExc = NoExc
    /\ scopeExc = NoExc
    /\ stepCalls = <<>>
    /\ outcomes = <<>>

\* A fresh tracker, with or without callback, and a context on it.
ProgInit ==
    /\ ptracker \in {NewTracker(cb) : cb \in BOOLEAN}
    /\ delivered = <<>>
    /\ issued = <<>>
    /\ ctx \in {NewContext(OperationName, n) : n \in 0..MaxTotalSteps}
    /\ ppc = "new"
    /\ bodyExc = NoExc
    /\ scopeExc = NoExc
    /\ stepCalls = <<>>
    /\ outcomes = <<>>

Scope_Aenter ==
    UNCHANGED <<execVars, ctrlVars, singVars>> /\ \E cbFail \in CallbackFailures(ptracker) : Aenter(cbFail)

Scope_Step ==
    /\ UNCHANGED <<execVars, ctrlVars, singVars>>
    /\ \E increment \in {1, 2}, cbFail \in CallbackFailures(ptracker), caught \in BOOLEAN :
         (caught => cbFail) /\ Step(increment, cbFail, caught)

Scope_BodyUpdate ==
    /\ UNCHANGED <<execVars, ctrlVars, singVars>>
    /\ \E u \in BodyUpdates, cbFail \in CallbackFailures(ptracker), caught \in BOOLEAN :
         (caught => cbFail) /\ BodyUpdate(u, cbFail, caught)

Scope_BodyEnd ==
    UNCHANGED <<execVars, ctrlVars, singVars>> /\ \E exc \in {NoExc, BodyError} : BodyEnd(exc)

Scope_Aexit ==
    UNCHANGED <<execVars, ctrlVars, singVars>> /\ \E cbFail \in CallbackFailures(ptracker) : Aexit(cbFail)

ScopeNext ==
    \/ Scope_Aenter
    \/ Scope_Step
    \/ Scope_BodyUpdate
    \/ Scope_BodyEnd
    \/ Scope_Aexit

\* ---- a scope whose body also reports phases, and catches nothing ----
Phase_Step ==
    /\ UNCHANGED <<execVars, ctrlVars, singVars>>
    /\ \E increment \in {1, 2}, cbFail \in CallbackFailures(ptracker) : Step(increment, cbFail, FALSE)

Phase_BodyUpdate ==
    /\ UNCHANGED <<execVars, ctrlVars, singVars>>
    /\ \E u \in BodyUpdates, cbFail \in CallbackFailures(ptracker) : BodyUpdate(u, cbFail, FALSE)

Phase_StartPhase ==
    /\ UNCHANGED <<execVars, ctrlVars, singVars>>
    /\ \E total_phases \in TotalPhasesChoices, cbFail \in CallbackFailures(ptracker) :
         BodyStartPhase(total_phases, cbFail, FALSE)

Phase_CompletePhase ==
    /\ UNCHANGED <<execVars, ctrlVars, singVars>>
    /\ \E cbFail \in CallbackFailures(ptracker) : BodyCompletePhase(cbFail, FALSE)

PhasesNext ==
    \/ Scope_Aenter
    \/ Phase_Step
    \/ Phase_BodyUpdate
    \/ Phase_StartPhase
    \/ Phase_CompletePhase
    \/ Scope_BodyEnd
    \/ Scope_Aexit

(***************************************************************************)
(* PlaybookExecutor                                                        *)
(***************************************************************************)

PlaybookName == "Unnamed Playbook"
\* execute has not returned
NoReturn == [status |-> None]

\* _execute_step skipping a name it does not know (action_map.get) instead of
\* raising.
ExecuteStep_SkipsUnknown(step, cbFail, envOk) ==
    IF step.action \notin ActionMap
    THEN [kind |-> "return", handler |-> FALSE, result |-> [success |-> FALSE]]
    ELSE IF cbFail \/ step.action \in {"test_exploratory", "test_accessibility"}
    THEN [kind |-> "raise", handler |-> TRUE, error |-> <<"raised">>]
    ELSE [kind |-> "return", handler |-> TRUE,
          result |-> [success |-> (step.action = "navigate" => StartsWithHttp(step.url)) /\ envOk]]

\* What _execute_step does with one step. cbFail: the progress callback fails
\* inside the handler (each handler reports through a tracker of its own that
\* holds the same callback); envOk: the controller call the handler makes
\* succeeds.
\*   - a name not in action_map: ValueError, no handler is called;
\*   - handle_run_exploratory_test reads .page of the un-awaited
\*     get_controller() coroutine, handle_run_accessibility_test calls
\*     .lower() on the dict run_accessibility_test returns: both always raise;
\*   - the other handlers return what the mcp_handler function returns, and
\*     those functions catch every exception and return a dict.
ExecuteStep(step, cbFail, envOk) ==
    IF step.action \notin ActionMap
    THEN [kind |-> "raise", handler |-> FALSE, error |-> <<"Unknown action", step.action>>]
    ELSE IF cbFail
    THEN [kind |-> "raise", handler |-> TRUE, error |-> <<"callback failed">>]
    ELSE IF step.action \in {"test_exploratory", "test_accessibility"}
    THEN [kind |-> "raise", handler |-> TRUE, error |-> <<"AttributeError">>]
    ELSE IF step.action = "navigate"
    THEN [kind |-> "return", handler |-> TRUE,
          result |-> [success |-> StartsWithHttp(step.url) /\ envOk]]
    ELSE [kind |-> "return", handler |-> TRUE, result |-> [success |-> envOk]]

Steps == playbook.steps
NSteps == Len(playbook.steps)
\* self.tracker, read at each use
Tracker == trackers[selfTracker]

SuccessEntry(i, step, result) ==
    [step_id |-> StepId(i), action |-> step.action, status |-> "success", result |-> result]
ErrorEntry(i, step, error) ==
    [step_id |-> StepId(i), action |-> step.action, status |-> "error", error |-> error]

\* The for loop's next iteration, or the code after the loop.
LoopPc(i) == IF i < NSteps THEN "info" ELSE "complete"

\* Lines 214-222: the tracker is created, start_phase reports.
Execute_Start(r) ==
    /\ pc[r] = "called"
    /\ \E cbFail \in CallbackFailures(NewTracker(cbRegistered)) :
        /\ selfTracker' = r
        /\ trackers' = (r :> StartPhase(NewTracker(cbRegistered),
                                       <<"Executing", PlaybookName>>, NSteps)) @@ trackers
        /\ pc' = [pc EXCEPT ![r] = IF cbFail THEN "raised" ELSE LoopPc(0)]
    /\ idx' = [idx EXCEPT ![r] = 0]
    /\ results' = [results EXCEPT ![r] = <<>>]
    /\ UNCHANGED <<playbook, cbRegistered, err, ret, calls, ctrlVars, progVars, singVars>>

\* Lines 224-232: the step's info update, outside the try block.
Execute_StepInfo(r) ==
    /\ pc[r] = "info"
    /\ \E cbFail \in CallbackFailures(Tracker) :
        /\ trackers' = [trackers EXCEPT ![selfTracker] =
              TrackerAppend(@, <<"Executing step", idx[r] + 1, NSteps, Steps[idx[r] + 1].action>>,
                            "info", Pct(idx[r], NSteps), <<>>)]
        /\ pc' = [pc EXCEPT ![r] = IF cbFail THEN "raised" ELSE "try"]
    /\ UNCHANGED <<playbook, cbRegistered, selfTracker, idx, results, err, ret, calls, ctrlVars, progVars, singVars>>

\* Lines 235-241: _execute_step, and the success entry when it returns.
Execute_Step(r) ==
    /\ pc[r] = "try"
    /\ \E cbFail \in CallbackFailures(Tracker), envOk \in BOOLEAN :
        LET step == Steps[idx[r] + 1]
            out == ExecuteStep(step, cbFail, envOk)
        IN  /\ calls' = [calls EXCEPT ![r] =
                   Append(@, [step |-> idx[r], kind |-> out.kind, handler |-> out.handler])]
            /\ IF out.kind = "return"
               THEN /\ results' = [results EXCEPT ![r] =
                          Append(@, SuccessEntry(idx[r], step, out.result))]
                    /\ pc' = [pc EXCEPT ![r] = "success"]
                    /\ err' = err
               ELSE /\ results' = results
                    /\ pc' = [pc EXCEPT ![r] = "except"]
                    /\ err' = [err EXCEPT ![r] = out.error]
    /\ UNCHANGED <<playbook, cbRegistered, selfTracker, trackers, idx, ret, ctrlVars, progVars, singVars>>

\* Line 243: the success update, still inside the try block.
Execute_StepSuccess(r) ==
    /\ pc[r] = "success"
    /\ \E cbFail \in CallbackFailures(Tracker) :
        /\ trackers' = [trackers EXCEPT ![selfTracker] =
              TrackerAppend(@, <<"Step completed successfully", idx[r] + 1>>,
                            "success", NoProgress, <<>>)]
        /\ IF cbFail
           THEN /\ pc' = [pc EXCEPT ![r] = "except"]
                /\ err' = [err EXCEPT ![r] = <<"callback failed">>]
                /\ idx' = idx
           ELSE /\ pc' = [pc EXCEPT ![r] = LoopPc(idx[r] + 1)]
                /\ err' = err
                /\ idx' = [idx EXCEPT ![r] = @ + 1]
    /\ UNCHANGED <<playbook, cbRegistered, selfTracker, results, ret, calls, ctrlVars, progVars, singVars>>

\* Lines 245-256: the except block.
Execute_StepError(r) ==
    /\ pc[r] = "except"
    /\ \E cbFail \in CallbackFailures(Tracker) :
        /\ trackers' = [trackers EXCEPT ![selfTracker] =
              TrackerAppend(@, <<"Step failed", idx[r] + 1, err[r]>>, "error", NoProgress, <<>>)]
        /\ IF cbFail
           THEN /\ pc' = [pc EXCEPT ![r] = "raised"]
                /\ UNCHANGED <<results, idx>>
           ELSE /\ results' = [results EXCEPT ![r] =
                      Append(@, ErrorEntry(idx[r], Steps[idx[r] + 1], err[r]))]
                /\ IF StopOnError(playbook)
                   THEN /\ pc' = [pc EXCEPT ![r] = "complete"]
                        /\ idx' = idx
                   ELSE /\ pc' = [pc EXCEPT ![r] = LoopPc(idx[r] + 1)]
                        /\ idx' = [idx EXCEPT ![r] = @ + 1]
    /\ UNCHANGED <<playbook, cbRegistered, selfTracker, err, ret, calls, ctrlVars, progVars, singVars>>

\* Lines 258-266: complete_phase and the returned result.
Execute_Complete(r) ==
    /\ pc[r] = "complete"
    /\ \E cbFail \in CallbackFailures(Tracker) :
        /\ trackers' = [trackers EXCEPT ![selfTracker] = CompletePhase(@, PlaybookName)]
        /\ IF cbFail
           THEN /\ pc' = [pc EXCEPT ![r] = "raised"]
                /\ ret' = ret
           ELSE /\ pc' = [pc EXCEPT ![r] = "returned"]
                /\ ret' = [ret EXCEPT ![r] =
                      [playbook_id |-> None, name |-> PlaybookName, status |-> "completed",
                       results |-> results[r],
                       summary |-> GetSummary(trackers'[selfTracker])]]
    /\ UNCHANGED <<playbook, cbRegistered, selfTracker, idx, results, err, calls, ctrlVars, progVars, singVars>>

Execute(r) ==
    \/ Execute_Start(r)
    \/ Execute_StepInfo(r)
    \/ Execute_Step(r)
    \/ Execute_StepSuccess(r)
    \/ Execute_StepError(r)
    \/ Execute_Complete(r)

(***************************************************************************)
(* PlaywrightController                                                    *)
(***************************************************************************)

Severities == {"high", "medium", "low", "info"}

\* self.findings as __init__ builds it.
NewFindings == [s \in Severities |-> <<>>]

\* page.url of a page that has not navigated
BlankUrl == Url("about", "blank")

\* The fields initialize sets, in the order it sets them.
InitSteps == <<"playwright", "browser", "context", "page">>

\* if selector: / if submit_selector:
Truthy(s) == s \notin {None, ""}

NoData == <<>>

\* The last call: the method, and what it returned: ret is "true", "false",
\* "none" (None), "data" (a base64 string, in data), "error" (an error
\* record), "result" (the method's result record: breakpoints, issues, report)
\* or "raised" (an exception left the method). For take_screenshot, selector is
\* the argument and page what the page did; for check_responsive_design, input
\* is the list of breakpoints it was called with; for run_security_checks,
\* input is what the page showed: <<has_csp, has_x_frame_options, forms>>.
Ret(op, tag) ==
    [op |-> op, ret |-> tag, selector |-> None, page |-> None, input |-> <<>>,
     data |-> NoData, breakpoints |-> <<>>, issues |-> <<>>,
     report |-> [summary |-> [phrase |-> None, counts |-> <<>>], next_steps |-> <<>>]]

\* As self.findings.setdefault(finding["type"], []).append(finding) would do.
FindingsAppend_KeyedByType(f, severity, finding) ==
    [k \in DOMAIN f \cup {finding.type} |->
        IF k = finding.type
        THEN Append(IF k \in DOMAIN f THEN f[k] ELSE <<>>, finding)
        ELSE f[k]]

\* self.findings[severity].append(finding)
FindingsAppend(f, severity, finding) == [f EXCEPT ![severity] = Append(@, finding)]

\* take_screenshot recording its entry before it looks at the element: a
\* selector that matches nothing leaves an entry without data.
TakeScreenshot_RecordsMissing(shots, inited, name, selector, full_page, env) ==
    IF ~inited \/ env = "raise" THEN [shots |-> shots, ret |-> NoData]
    ELSE LET type == IF Truthy(selector) THEN "element"
                     ELSE IF full_page THEN "full_page" ELSE "viewport"
             data == IF Truthy(selector) /\ env = "not_found" THEN NoData
                     ELSE <<Len(shots) + 1>>
         IN  [shots |-> Append(shots, [name |-> name, type |-> type,
                                       selector |-> selector, data |-> data]),
              ret |-> data]

\* take_screenshot on an initialized or uninitialized controller. env is what
\* the page does: "ok", "not_found" (query_selector returns None) or "raise"
\* (query_selector, element.screenshot or page.screenshot raises). The image is
\* named by the position it gets in screenshots.
TakeScreenshot(shots, inited, name, selector, full_page, env) ==
    IF ~inited THEN [shots |-> shots, ret |-> NoData]
    ELSE IF env = "raise" THEN [shots |-> shots, ret |-> NoData]
    ELSE IF Truthy(selector) /\ env = "not_found" THEN [shots |-> shots, ret |-> NoData]
    ELSE LET type == IF Truthy(selector) THEN "element"
                     ELSE IF full_page THEN "full_page" ELSE "viewport"
             data == <<Len(shots) + 1>>
         IN  [shots |-> Append(shots, [name |-> name, type |-> type,
                                       selector |-> selector, data |-> data]),
              ret |-> data]

\* What the page can do to a screenshot taken with this selector.
ShotEnvs(selector) == IF Truthy(selector) THEN {"ok", "not_found", "raise"} ELSE {"ok", "raise"}

Called(op, tag) ==
    /\ ncalls' = ncalls + 1
    /\ last' = Ret(op, tag)

\* initialize: failAt = 0, every step succeeds; failAt = k in 1..4, the step
\* that sets InitSteps[k] raises; failAt = 5, _setup_page_event_listeners
\* raises. The fields set before the failure stay set.
Initialize(failAt) ==
    LET done == IF failAt = 0 \/ failAt = 5 THEN 4 ELSE failAt - 1
    IN  /\ handles' = handles \cup {InitSteps[k] : k \in 1..done}
        /\ page_url' = IF done = 4 THEN BlankUrl ELSE page_url
        /\ is_initialized' = IF failAt = 0 THEN TRUE ELSE is_initialized
        /\ Called("initialize", IF failAt = 0 THEN "true" ELSE "false")
        /\ UNCHANGED <<screenshots, findings>>

\* close also starting the lists afresh.
Close_ResetsLists(fails) ==
    /\ fails => is_initialized
    /\ IF is_initialized /\ ~fails
       THEN /\ handles' = {}
            /\ page_url' = NoUrl
            /\ is_initialized' = FALSE
            /\ screenshots' = <<>>
            /\ findings' = NewFindings
            /\ Called("close", "none")
       ELSE /\ Called("close", IF fails THEN "raised" ELSE "none")
            /\ UNCHANGED <<handles, page_url, is_initialized, screenshots, findings>>

\* close: nothing on an uninitialized controller; fails: one of the three
\* close/stop calls raises, before any field is cleared.
Close(fails) ==
    /\ fails => is_initialized
    /\ IF is_initialized /\ ~fails
       THEN /\ handles' = {}
            /\ page_url' = NoUrl
            /\ is_initialized' = FALSE
            /\ Called("close", "none")
       ELSE /\ Called("close", IF fails THEN "raised" ELSE "none")
            /\ UNCHANGED <<handles, page_url, is_initialized>>
    /\ UNCHANGED <<screenshots, findings>>

\* get_controller of mcp_handler: the module's controller is replaced by a new
\* PlaywrightController when it is None or not initialized, and the new one is
\* initialized (failAt as for initialize); a failed initialize raises
\* RuntimeError and leaves the new, uninitialized instance in place.
GetController(failAt) ==
    /\ is_initialized => failAt = 0
    /\ IF is_initialized
       THEN /\ Called("get_controller", "controller")
            /\ UNCHANGED <<is_initialized, handles, page_url, screenshots, findings>>
       ELSE LET done == IF failAt = 0 \/ failAt = 5 THEN 4 ELSE failAt - 1
            IN  /\ screenshots' = <<>>
                /\ findings' = NewFindings
                /\ handles' = {InitSteps[k] : k \in 1..done}
                /\ page_url' = IF done = 4 THEN BlankUrl ELSE NoUrl
                /\ is_initialized' = (failAt = 0)
                /\ Called("get_controller", IF failAt = 0 THEN "controller" ELSE "raised")

\* navigate: resp is what page.goto does: "raise", "none" (returns None),
\* "not_ok" or "ok" (a response, with its ok flag).
Navigate(url, resp, shotEnv) ==
    /\ ~StartsWithHttp(url) => resp = "raise"
    /\ IF ~is_initialized \/ resp = "raise"
       THEN /\ Called("navigate", "false")
            /\ UNCHANGED <<page_url, screenshots>>
       ELSE /\ page_url' = url
            /\ screenshots' =
                 TakeScreenshot(screenshots, TRUE, <<"page_load">>, None, FALSE, shotEnv).shots
            /\ Called("navigate", IF resp = "ok" THEN "true" ELSE "false")
    /\ UNCHANGED <<is_initialized, handles, findings>>

\* take_screenshot called by a user of the controller.
TakeScreenshotCall(name, selector, full_page, env) ==
    LET s == TakeScreenshot(screenshots, is_initialized, name, selector, full_page, env)
    IN  /\ screenshots' = s.shots
        /\ ncalls' = ncalls + 1
        /\ last' = [Ret("take_screenshot", IF s.ret = NoData THEN "none" ELSE "data")
                      EXCEPT !.data = s.ret, !.selector = selector, !.page = env]
        /\ UNCHANGED <<is_initialized, handles, page_url, findings>>

\* fill_form: env = "raise" when page.fill, page.click or wait_for_load_state
\* raises.
FillForm(submit_selector, env, shotEnv) ==
    /\ IF ~is_initialized \/ env = "raise"
       THEN /\ Called("fill_form", "false")
            /\ UNCHANGED screenshots
       ELSE /\ screenshots' =
                 IF Truthy(submit_selector)
                 THEN TakeScreenshot(screenshots, TRUE, <<"form_submission">>, None, FALSE,
                                     shotEnv).shots
                 ELSE screenshots
            /\ Called("fill_form", "true")
    /\ UNCHANGED <<is_initialized, handles, page_url, findings>>

\* test_login_form: fill_form (its result is not looked at), a screenshot, the
\* click and the wait, a second screenshot, _check_login_success. env is
\* "raise_click" (page.click or wait_for_load_state raises), "raise_check" (a
\* query_selector of _check_login_success raises), "login_failed" or "ok".
\* The screenshots taken before the exception stay.
TestLoginForm(env, shotEnv1, shotEnv2) ==
    /\ IF ~is_initialized
       THEN /\ Called("test_login_form", "error")
            /\ UNCHANGED screenshots
       ELSE LET s1 == TakeScreenshot(screenshots, TRUE, <<"login_form_filled">>, None, FALSE,
                                     shotEnv1).shots
                s2 == TakeScreenshot(s1, TRUE, <<"login_result">>, None, FALSE, shotEnv2).shots
            IN  IF env = "raise_click"
                THEN /\ screenshots' = s1
                     /\ Called("test_login_form", "error")
                ELSE /\ screenshots' = s2
                     /\ Called("test_login_form", IF env = "raise_check" THEN "error" ELSE "result")
    /\ UNCHANGED <<is_initialized, handles, page_url, findings>>

\* extract_form_fields: the fields the evaluate returns; an empty list when
\* the page holds no form, when the evaluate raises and when the controller
\* is not initialized.
ExtractFormFields(env) ==
    /\ Called("extract_form_fields",
              IF is_initialized /\ env = "fields" THEN "fields" ELSE "empty")
    /\ UNCHANGED <<is_initialized, handles, page_url, screenshots, findings>>

\* _run_accessibility_checks: the images without alt text, then the inputs
\* without label, every issue with severity "medium".
AccessibilityIssues(nAlt, nLabel) ==
    [k \in 1..(nAlt + nLabel) |->
        IF k <= nAlt
        THEN [type |-> "missing_alt_text", severity |-> "medium",
              description |-> "Image missing alt text"]
        ELSE [type |-> "missing_label", severity |-> "medium",
              description |-> "Input field missing label"]]

\* The loop of check_accessibility that adds every issue to findings.
RECURSIVE AddAccessibilityFindings(_, _)
AddAccessibilityFindings(f, issues) ==
    IF issues = <<>> THEN f
    ELSE AddAccessibilityFindings(
            FindingsAppend(f, Head(issues).severity,
                           [type |-> "accessibility", description |-> Head(issues).description]),
            Tail(issues))

\* check_accessibility: env = "raise" when the snapshot or an evaluate raises.
CheckAccessibility(env, nAlt, nLabel) ==
    /\ IF ~is_initialized
       THEN /\ Called("check_accessibility", "error")
            /\ UNCHANGED findings
       ELSE IF env = "raise"
       THEN /\ Called("check_accessibility", "error")
            /\ UNCHANGED findings
       ELSE /\ findings' = AddAccessibilityFindings(findings, AccessibilityIssues(nAlt, nLabel))
            /\ ncalls' = ncalls + 1
            /\ last' = [Ret("check_accessibility", "result")
                          EXCEPT !.issues = AccessibilityIssues(nAlt, nLabel)]
    /\ UNCHANGED <<is_initialized, handles, page_url, screenshots>>

\* The breakpoints run_responsive_test passes when the resource names none.
DefaultBreakpoints ==
    <<[name |-> "Mobile Small", width |-> 320, height |-> 568],
      [name |-> "Mobile Large", width |-> 414, height |-> 736],
      [name |-> "Tablet", width |-> 768, height |-> 1024],
      [name |-> "Desktop", width |-> 1366, height |-> 768]>>

\* if viewport_width <= 768
TapTargetMaxWidth == 768

\* _check_layout_issues at viewport width w: env "issues" is a page whose body
\* overflows and that holds one small tap target (looked for only at a width
\* of at most 768).
LayoutIssues(env, w) ==
    (IF env = "issues"
     THEN <<[type |-> "horizontal_overflow", severity |-> "medium",
             description |-> "Page content overflows horizontally"]>>
     ELSE <<>>)
    \o (IF env = "issues" /\ w <= TapTargetMaxWidth
        THEN <<[type |-> "small_tap_target", severity |-> "medium",
                description |-> "Tap target is too small"]>>
        ELSE <<>>)

\* The loop body of check_responsive_design adding the issues of one
\* breakpoint to results["issues"] and to findings["medium"].
RECURSIVE AddResponsiveFindings(_, _, _)
AddResponsiveFindings(f, issues, name) ==
    IF issues = <<>> THEN f
    ELSE AddResponsiveFindings(
            FindingsAppend(f, "medium",
                           [type |-> "responsive",
                            description |-> <<"Responsive issue at", name, Head(issues).description>>]),
            Tail(issues), name)

TagIssues(issues, name) ==
    [k \in 1..Len(issues) |->
        [type |-> issues[k].type, severity |-> issues[k].severity,
         description |-> issues[k].description, breakpoint |-> name]]

\* The for loop of check_responsive_design from breakpoint k on. st holds
\* screenshots, findings and the results built so far. envs[k] is what the page
\* does at breakpoint k: "clean", "issues", "noshot" (the screenshot fails), "raise_goto" (set_viewport_size or goto raises) or "raise" (an
\* evaluate or viewport_size() of _check_layout_issues raises).
RECURSIVE ResponsiveLoop(_, _, _, _)
ResponsiveLoop(st, bps, envs, k) ==
    IF k > Len(bps) THEN st
    ELSE IF envs[k] = "raise_goto" THEN [st EXCEPT !.raised = TRUE]
    ELSE LET shot == TakeScreenshot(st.shots, TRUE, <<"breakpoint", bps[k].name>>, None, FALSE,
                                    IF envs[k] = "noshot" THEN "raise" ELSE "ok")
         IN  IF envs[k] = "raise" THEN [st EXCEPT !.shots = shot.shots, !.raised = TRUE]
             ELSE LET issues == LayoutIssues(envs[k], bps[k].width)
                  IN  ResponsiveLoop(
                        [shots |-> shot.shots,
                         findings |-> AddResponsiveFindings(st.findings, issues, bps[k].name),
                         breakpoints |-> Append(st.breakpoints,
                              [name |-> bps[k].name, width |-> bps[k].width,
                               height |-> bps[k].height, screenshot |-> shot.ret,
                               issues |-> issues]),
                         issues |-> st.issues \o TagIssues(issues, bps[k].name),
                         raised |-> FALSE],
                        bps, envs, k + 1)

\* check_responsive_design: no try block, an exception of a page action leaves
\* the method with what the earlier iterations recorded.
CheckResponsiveDesign(bps, envs) ==
    /\ IF ~is_initialized
       THEN /\ ncalls' = ncalls + 1
            /\ last' = [Ret("check_responsive_design", "error") EXCEPT !.input = bps]
            /\ UNCHANGED <<screenshots, findings>>
       ELSE LET st == ResponsiveLoop([shots |-> screenshots, findings |-> findings,
                                      breakpoints |-> <<>>, issues |-> <<>>, raised |-> FALSE],
                                     bps, envs, 1)
            IN  /\ screenshots' = st.shots
                /\ findings' = st.findings
                /\ ncalls' = ncalls + 1
                /\ last' = IF st.raised
                           THEN [Ret("check_responsive_design", "raised") EXCEPT !.input = bps]
                           ELSE [Ret("check_responsive_design", "result")
                                   EXCEPT !.input = bps, !.breakpoints = st.breakpoints,
                                          !.issues = st.issues]
    /\ UNCHANGED <<is_initialized, handles, page_url>>

\* What the page can do at one breakpoint.
IterEnvs == {"clean", "issues", "noshot", "raise_goto", "raise"}

\* A form as the evaluate of run_security_checks reports it.
Form(hasPassword, action) == [hasPassword |-> hasPassword, action |-> action]
\* form.get("hasPassword") and form.get("action", "").startswith("http:")
InsecurePasswordForm(form) == form.hasPassword /\ form.action.scheme = "http"

SecurityFinding(description) == [type |-> "security", description |-> description]
SecurityIssue(severity, description) == [severity |-> severity, description |-> description]

\* The forms loop filing its finding one severity lower than the issue says.
RECURSIVE AddFormFindings_MediumSeverity(_, _)
AddFormFindings_MediumSeverity(st, forms) ==
    IF forms = <<>> THEN st
    ELSE AddFormFindings_MediumSeverity(
            IF InsecurePasswordForm(Head(forms))
            THEN [findings |-> FindingsAppend(st.findings, "medium",
                                 SecurityFinding("Password form submitting over HTTP")),
                  issues |-> Append(st.issues,
                                 SecurityIssue("high", "Password form submitting over HTTP"))]
            ELSE st,
            Tail(forms))

\* The loop of run_security_checks over the forms of the page.
RECURSIVE AddFormFindings(_, _)
AddFormFindings(st, forms) ==
    IF forms = <<>> THEN st
    ELSE AddFormFindings(
            IF InsecurePasswordForm(Head(forms))
            THEN [findings |-> FindingsAppend(st.findings, "high",
                                 SecurityFinding("Password form submitting over HTTP")),
                  issues |-> Append(st.issues,
                                 SecurityIssue("high", "Password form submitting over HTTP"))]
            ELSE st,
            Tail(forms))

\* run_security_checks up to its return or to the page action that raises:
\* failAt is "none", "goto" (page.goto raises, or returns None so that
\* response.headers raises) or "evaluate" (the forms evaluate raises). Each
\* check adds its finding as soon as it is made.
SecurityChecks(f, url, failAt, has_csp, has_x_frame_options, forms) ==
    LET s1 == IF url.scheme # "https"
              THEN [findings |-> FindingsAppend(f, "high", SecurityFinding("Site is not using HTTPS")),
                    issues |-> <<SecurityIssue("high", "Site is not using HTTPS")>>]
              ELSE [findings |-> f, issues |-> <<>>]
        s2 == IF ~has_csp
              THEN [findings |-> FindingsAppend(s1.findings, "medium",
                                   SecurityFinding("No Content Security Policy header")),
                    issues |-> Append(s1.issues,
                                   SecurityIssue("medium", "No Content Security Policy header"))]
              ELSE s1
        s3 == IF ~has_x_frame_options
              THEN [findings |-> FindingsAppend(s2.findings, "low",
                                   SecurityFinding("No X-Frame-Options header")),
                    issues |-> Append(s2.issues,
                                   SecurityIssue("low", "No X-Frame-Options header"))]
              ELSE s2
    IN  IF failAt = "goto" THEN [findings |-> s1.findings, issues |-> s1.issues, error |-> TRUE]
        ELSE IF failAt = "evaluate"
        THEN [findings |-> s3.findings, issues |-> s3.issues, error |-> TRUE]
        ELSE LET s4 == AddFormFindings(s3, forms)
             IN  [findings |-> s4.findings, issues |-> s4.issues, error |-> FALSE]

\* run_security_checks: the except block returns an error record.
RunSecurityChecks(failAt, has_csp, has_x_frame_options, forms) ==
    /\ IF ~is_initialized
       THEN /\ Called("run_security_checks", "error")
            /\ UNCHANGED findings
       ELSE LET st == SecurityChecks(findings, page_url, failAt, has_csp,
                                     has_x_frame_options, forms)
            IN  /\ findings' = st.findings
                /\ ncalls' = ncalls + 1
                /\ last' = [Ret("run_security_checks", IF st.error THEN "error" ELSE "result")
                              EXCEPT !.input = <<has_csp, has_x_frame_options, forms>>,
                                     !.issues = IF st.error THEN <<>> ELSE st.issues]
    /\ UNCHANGED <<is_initialized, handles, page_url, screenshots>>

\* The summary leaving the low findings out of its total.
ReportSummary_TotalOmitsLow(f) ==
    IF f["high"] = <<>> /\ f["medium"] = <<>> /\ f["low"] = <<>>
    THEN [phrase |-> "No issues were found.", counts |-> <<>>]
    ELSE [phrase |-> "Found {total} issues ({high} high, {medium} medium, {low} low priority).",
          counts |-> <<Len(f["high"]) + Len(f["medium"]),
                       Len(f["high"]), Len(f["medium"]), Len(f["low"])>>]

\* The summary of get_test_report, after "Tested {url} using {test_type}
\* methodology. ": the phrase and the numbers it holds.
ReportSummary(f) ==
    IF f["high"] = <<>> /\ f["medium"] = <<>> /\ f["low"] = <<>>
    THEN [phrase |-> "No issues were found.", counts |-> <<>>]
    ELSE [phrase |-> "Found {total} issues ({high} high, {medium} medium, {low} low priority).",
          counts |-> <<Len(f["high"]) + Len(f["medium"]) + Len(f["low"]),
                       Len(f["high"]), Len(f["medium"]), Len(f["low"])>>]

\* next_steps of get_test_report
ReportNextSteps(f) ==
    (IF f["high"] # <<>> \/ f["medium"] # <<>>
     THEN <<"1. Address the identified issues starting with high-priority items",
            "2. Run focused tests on problematic areas after fixes">>
     ELSE <<"1. Run additional test types to ensure comprehensive coverage">>)
    \o <<"3. Consider implementing automated testing for regression prevention">>

\* get_test_report looking at the page instead of is_initialized.
GetTestReport_ChecksPage(env) ==
    /\ IF "page" \notin handles THEN Called("get_test_report", "error")
       ELSE IF env = "raise" \/ ~is_initialized THEN Called("get_test_report", "raised")
       ELSE /\ ncalls' = ncalls + 1
            /\ last' = [Ret("get_test_report", "result") EXCEPT
                          !.report = [summary |-> ReportSummary(findings),
                                      next_steps |-> ReportNextSteps(findings)]]
    /\ UNCHANGED <<is_initialized, handles, page_url, screenshots, findings>>

\* get_test_report: no try block; env = "raise" when the evaluate or
\* viewport_size() raises.
GetTestReport(env) ==
    /\ IF ~is_initialized THEN Called("get_test_report", "error")
       ELSE IF env = "raise" THEN Called("get_test_report", "raised")
       ELSE /\ ncalls' = ncalls + 1
            /\ last' = [Ret("get_test_report", "result") EXCEPT
                          !.report = [summary |-> ReportSummary(findings),
                                      next_steps |-> ReportNextSteps(findings)]]
    /\ UNCHANGED <<is_initialized, handles, page_url, screenshots, findings>>

\* A fresh PlaywrightController (__init__).
CtrlInit ==
    /\ is_initialized = FALSE
    /\ handles = {}
    /\ page_url = NoUrl
    /\ screenshots = <<>>
    /\ findings = NewFindings
    /\ ncalls = 0
    /\ last = Ret("__init__", "none")

\* The breakpoint lists check_responsive_design is called with.
BreakpointLists == {SubSeq(DefaultBreakpoints, 1, n) : n \in 0..MaxBreakpoints}

\* The forms a page holds.
FormLists ==
    {<<>>, <<Form(TRUE, PlainUrl)>>, <<Form(TRUE, GoodUrl)>>, <<Form(FALSE, PlainUrl)>>}

\* The methods of the controller, each called with every input and every
\* behaviour of the page, while the call budget lasts.
CanCall == ncalls < MaxCalls

Call_Initialize ==
    CanCall /\ UNCHANGED <<execVars, progVars, singVars>> /\ \E failAt \in 0..5 : Initialize(failAt)

Call_Close ==
    CanCall /\ UNCHANGED <<execVars, progVars, singVars>> /\ \E fails \in BOOLEAN : Close(fails)

Call_Navigate ==
    /\ CanCall /\ UNCHANGED <<execVars, progVars, singVars>>
    /\ \E url \in {GoodUrl, PlainUrl, NotAUrl}, resp \in {"raise", "none", "not_ok", "ok"},
          shotEnv \in ShotEnvs(None) : Navigate(url, resp, shotEnv)

Call_TakeScreenshot ==
    /\ CanCall /\ UNCHANGED <<execVars, progVars, singVars>>
    /\ \E selector \in {None, "", "#el"}, full_page \in BOOLEAN :
         \E env \in ShotEnvs(selector) :
            TakeScreenshotCall(<<"user_requested">>, selector, full_page, env)

Call_FillForm ==
    /\ CanCall /\ UNCHANGED <<execVars, progVars, singVars>>
    /\ \E submit \in {None, "#submit"}, env \in {"ok", "raise"}, shotEnv \in ShotEnvs(None) :
         FillForm(submit, env, shotEnv)

Call_CheckAccessibility ==
    /\ CanCall /\ UNCHANGED <<execVars, progVars, singVars>>
    /\ \E env \in {"ok", "raise"}, nAlt \in 0..1, nLabel \in 0..1 :
         CheckAccessibility(env, nAlt, nLabel)

Call_CheckResponsiveDesign ==
    /\ CanCall /\ UNCHANGED <<execVars, progVars, singVars>>
    /\ \E bps \in BreakpointLists : \E envs \in [1..Len(bps) -> IterEnvs] :
         CheckResponsiveDesign(bps, envs)

Call_RunSecurityChecks ==
    /\ CanCall /\ UNCHANGED <<execVars, progVars, singVars>>
    /\ \E failAt \in {"none", "goto", "evaluate"}, csp \in BOOLEAN, xfo \in BOOLEAN,
          forms \in FormLists : RunSecurityChecks(failAt, csp, xfo, forms)

Call_GetTestReport ==
    CanCall /\ UNCHANGED <<execVars, progVars, singVars>> /\ \E env \in {"ok", "raise"} : GetTestReport(env)

Call_TestLoginForm ==
    /\ CanCall /\ UNCHANGED <<execVars, progVars, singVars>>
    /\ \E env \in {"ok", "login_failed", "raise_click", "raise_check"},
          shotEnv1 \in ShotEnvs(None), shotEnv2 \in ShotEnvs(None) :
         TestLoginForm(env, shotEnv1, shotEnv2)

Call_ExtractFormFields ==
    /\ CanCall /\ UNCHANGED <<execVars, progVars, singVars>>
    /\ \E env \in {"fields", "no_form", "raise"} : ExtractFormFields(env)

CtrlNext ==
    \/ Call_Initialize
    \/ Call_Close
    \/ Call_Navigate
    \/ Call_TakeScreenshot
    \/ Call_FillForm
    \/ Call_CheckAccessibility
    \/ Call_CheckResponsiveDesign
    \/ Call_RunSecurityChecks
    \/ Call_GetTestReport
    \/ Call_TestLoginForm
    \/ Call_ExtractFormFields

(***************************************************************************)
(* get_controller of mcp_handler, called by handlers that run concurrently *)
(***************************************************************************)

Tasks == {1, 2}
\* ---- bounds ----
MaxGets == 3

\* PlaywrightController.__init__: no handle set, not initialized.
NewInstance == [is_initialized |-> FALSE, handles |-> {}, closed |-> FALSE]

\* A handler calls get_controller.
GetController_Call(t) ==
    /\ tpc[t] \in {"idle", "returned", "raised"}
    /\ ngets < MaxGets
    /\ tpc' = [tpc EXCEPT ![t] = "called"]
    /\ ngets' = ngets + 1
    /\ UNCHANGED <<gctl, insts, tinst, rets, execVars, ctrlVars, progVars>>

\* Lines 39-43 up to the await: the test of the global, and, when it is None
\* or not initialized, the new instance assigned to the global and its
\* initialize() called; otherwise the global is returned at once.
GetController_Check(t) ==
    /\ tpc[t] = "called"
    /\ IF gctl = 0 \/ ~insts[gctl].is_initialized
       THEN /\ insts' = Append(insts, NewInstance)
            /\ gctl' = Len(insts) + 1
            /\ tinst' = [tinst EXCEPT ![t] = Len(insts) + 1]
            /\ tpc' = [tpc EXCEPT ![t] = "initialize"]
            /\ rets' = rets
       ELSE /\ rets' = Append(rets, gctl)
            /\ tpc' = [tpc EXCEPT ![t] = "returned"]
            /\ UNCHANGED <<gctl, insts, tinst>>
    /\ UNCHANGED <<ngets, execVars, ctrlVars, progVars>>

\* Lines 43-47: initialize() of the instance the task created ends (failAt as
\* for initialize: what was set before the failure stays set), and on success
\* "return controller" reads the global again.
GetController_Initialize(t) ==
    /\ tpc[t] = "initialize"
    /\ \E failAt \in 0..5 :
         LET done == IF failAt = 0 \/ failAt = 5 THEN 4 ELSE failAt - 1
         IN  /\ insts' = [insts EXCEPT ![tinst[t]] =
                    [@ EXCEPT !.handles = @ \cup {InitSteps[k] : k \in 1..done},
                              !.is_initialized = (failAt = 0)]]
             /\ IF failAt = 0
                THEN /\ rets' = Append(rets, gctl)
                     /\ tpc' = [tpc EXCEPT ![t] = "returned"]
                ELSE /\ rets' = rets
                     /\ tpc' = [tpc EXCEPT ![t] = "raised"]
    /\ UNCHANGED <<gctl, tinst, ngets, execVars, ctrlVars, progVars>>

\* The holder of the global controller closes it: close() of an initialized
\* controller closes context and browser, stops playwright and clears
\* is_initialized.
Holder_Close(t) ==
    /\ tpc[t] = "returned"
    /\ gctl # 0
    /\ insts[gctl].is_initialized
    /\ insts' = [insts EXCEPT ![gctl] =
           [is_initialized |-> FALSE, handles |-> {}, closed |-> TRUE]]
    /\ UNCHANGED <<gctl, tpc, tinst, rets, ngets, execVars, ctrlVars, progVars>>

Singleton_Call == \E t \in Tasks : GetController_Call(t)
Singleton_Check == \E t \in Tasks : GetController_Check(t)
Singleton_Initialize == \E t \in Tasks : GetController_Initialize(t)
Singleton_Close == \E t \in Tasks : Holder_Close(t)

SingletonNext ==
    \/ Singleton_Call
    \/ Singleton_Check
    \/ Singleton_Initialize
    \/ Singleton_Close

\* The module as imported: controller = None, no handler running.
SingIdle ==
    /\ gctl = 0
    /\ insts = <<>>
    /\ tpc = [t \in Tasks |-> "idle"]
    /\ tinst = [t \in Tasks |-> 0]
    /\ rets = <<>>
    /\ ngets = 0

\* The executor's variables while only the controller is used.
ExecIdle ==
    /\ playbook = [steps |-> <<>>, stop_on_error |-> "absent"]
    /\ cbRegistered = FALSE
    /\ selfTracker = 0
    /\ trackers = <<>>
    /\ pc = [r \in Runs |-> "idle"]
    /\ idx = [r \in Runs |-> 0]
    /\ results = [r \in Runs |-> <<>>]
    /\ err = [r \in Runs |-> <<>>]
    /\ ret = [r \in Runs |-> NoReturn]
    /\ calls = [r \in Runs |-> <<>>]

InitCtrl == ExecIdle /\ CtrlInit /\ ProgIdle /\ SingIdle

SpecCtrl == InitCtrl /\ [][CtrlNext]_vars

\* One ProgressContext scope on a fresh tracker.
InitScope == ExecIdle /\ CtrlInit /\ ProgInit /\ SingIdle

SpecScope == InitScope /\ [][ScopeNext]_vars

InitSingleton == ExecIdle /\ CtrlInit /\ ProgIdle /\ SingIdle

SpecSingleton == InitSingleton /\ [][SingletonNext]_vars

\* The same scope with the tracker's phase calls in its body.
SpecPhases == InitScope /\ [][PhasesNext]_vars

\* ---- the controller behind get_controller ----
MaxSessionCalls == 4
SessionCanCall == ncalls < MaxSessionCalls

Session_GetController ==
    SessionCanCall /\ UNCHANGED <<execVars, progVars, singVars>> /\ \E failAt \in 0..5 : GetController(failAt)

Session_Initialize ==
    SessionCanCall /\ UNCHANGED <<execVars, progVars, singVars>> /\ \E failAt \in 0..5 : Initialize(failAt)

Session_Close ==
    SessionCanCall /\ UNCHANGED <<execVars, progVars, singVars>> /\ \E fails \in BOOLEAN : Close(fails)

Session_Navigate ==
    /\ SessionCanCall /\ UNCHANGED <<execVars, progVars, singVars>>
    /\ \E url \in {GoodUrl, NotAUrl}, resp \in {"raise", "ok"}, shotEnv \in ShotEnvs(None) :
         Navigate(url, resp, shotEnv)

Session_CheckAccessibility ==
    /\ SessionCanCall /\ UNCHANGED <<execVars, progVars, singVars>>
    /\ \E env \in {"ok", "raise"}, nAlt \in 0..1 : CheckAccessibility(env, nAlt, 0)

Session_RunSecurityChecks ==
    /\ SessionCanCall /\ UNCHANGED <<execVars, progVars, singVars>>
    /\ \E failAt \in {"none", "goto"}, csp \in BOOLEAN, xfo \in BOOLEAN :
         RunSecurityChecks(failAt, csp, xfo, <<>>)

Session_GetTestReport ==
    SessionCanCall /\ UNCHANGED <<execVars, progVars, singVars>> /\ \E env \in {"ok", "raise"} : GetTestReport(env)

SessionNext ==
    \/ Session_GetController
    \/ Session_Initialize
    \/ Session_Close
    \/ Session_Navigate
    \/ Session_CheckAccessibility
    \/ Session_RunSecurityChecks
    \/ Session_GetTestReport

\* One session: the module's controller, reached through get_controller or
\* held by a caller that initializes and closes it itself.
SpecSession == InitCtrl /\ [][SessionNext]_vars

ExecInit ==
    /\ playbook \in Playbooks
    /\ cbRegistered \in BOOLEAN
    /\ selfTracker = 0
    /\ trackers = <<>>
    /\ pc = [r \in Runs |-> IF r = 1 THEN "called" ELSE "idle"]
    /\ idx = [r \in Runs |-> 0]
    /\ results = [r \in Runs |-> <<>>]
    /\ err = [r \in Runs |-> <<>>]
    /\ ret = [r \in Runs |-> NoReturn]
    /\ calls = [r \in Runs |-> <<>>]

Init == ExecInit /\ CtrlInit /\ ProgIdle /\ SingIdle

Next == \E r \in Runs : Execute(r)

Spec == Init /\ [][Next]_vars

\* ---- longer playbooks of few kinds of steps ----
MaxLongSteps == 3

\* A step that returns and a step that raises.
LongStepChoices ==
    {[action |-> a, url |-> NoUrl] : a \in {"screenshot", "bogus_action"}}

LongPlaybooks ==
    [steps : SeqsUpTo(LongStepChoices, MaxLongSteps), stop_on_error : {"false", "absent"}]

InitLong ==
    /\ playbook \in LongPlaybooks
    /\ cbRegistered \in BOOLEAN
    /\ selfTracker = 0
    /\ trackers = <<>>
    /\ pc = [r \in Runs |-> IF r = 1 THEN "called" ELSE "idle"]
    /\ idx = [r \in Runs |-> 0]
    /\ results = [r \in Runs |-> <<>>]
    /\ err = [r \in Runs |-> <<>>]
    /\ ret = [r \in Runs |-> NoReturn]
    /\ calls = [r \in Runs |-> <<>>]
    /\ CtrlInit
    /\ ProgIdle
    /\ SingIdle

\* One execute call on a playbook of up to MaxLongSteps steps.
SpecLong == InitLong /\ [][Next]_vars

\* ---- two execute calls on one PlaybookExecutor ----
MaxRunSteps == 1

RunPlaybooks ==
    [steps : SeqsUpTo(LongStepChoices, MaxRunSteps), stop_on_error : {"false", "absent"}]

\* Both calls are made, with the same playbook; each starts when the event
\* loop first runs it, and they take turns where they await.
InitRuns ==
    /\ playbook \in RunPlaybooks
    /\ cbRegistered \in BOOLEAN
    /\ selfTracker = 0
    /\ trackers = <<>>
    /\ pc = [r \in Runs |-> "called"]
    /\ idx = [r \in Runs |-> 0]
    /\ results = [r \in Runs |-> <<>>]
    /\ err = [r \in Runs |-> <<>>]
    /\ ret = [r \in Runs |-> NoReturn]
    /\ calls = [r \in Runs |-> <<>>]
    /\ CtrlInit
    /\ ProgIdle
    /\ SingIdle

\* Where an execute call gives the event loop away: before it starts and after
\* it ends, while a handler of action_map awaits the browser, and inside a
\* progress update when a callback is registered (a coroutine callback is
\* awaited). Everywhere else the call runs on without a switch.
AtAwait(r) ==
    \/ pc[r] \in {"idle", "called", "returned", "raised"}
    \/ pc[r] = "try" /\ Steps[idx[r] + 1].action \in ActionMap
    \/ cbRegistered

Scheduled(r) == \A o \in Runs \ {r} : AtAwait(o)

\* Each part of execute, taken by a call the event loop can run.
Run_Start == \E r \in Runs : Scheduled(r) /\ Execute_Start(r)
Run_StepInfo == \E r \in Runs : Scheduled(r) /\ Execute_StepInfo(r)
Run_Step == \E r \in Runs : Scheduled(r) /\ Execute_Step(r)
Run_StepSuccess == \E r \in Runs : Scheduled(r) /\ Execute_StepSuccess(r)
Run_StepError == \E r \in Runs : Scheduled(r) /\ Execute_StepError(r)
Run_Complete == \E r \in Runs : Scheduled(r) /\ Execute_Complete(r)

RunsNext ==
    \/ Run_Start
    \/ Run_StepInfo
    \/ Run_Step
    \/ Run_StepSuccess
    \/ Run_StepError
    \/ Run_Complete

SpecRuns == InitRuns /\ [][RunsNext]_vars

(***************************************************************************)
(* Claims about PlaybookExecutor.execute (run 1 of Spec)                   *)
(***************************************************************************)

Returned == pc[1] = "returned"
\* The results list execute returned.
Res == ret[1].results
\* The 0-based step an entry of results belongs to.
EntryStep(e) == e.step_id[2]
\* The calls of _execute_step that raised.
RaisedCalls == {k \in 1..Len(calls[1]) : calls[1][k].kind = "raise"}
Min(S) == CHOOSE x \in S : \A y \in S : x <= y
\* Entry k of results is the entry of step k - 1 with the given status.
EntryIs(k, status) ==
    /\ Res[k].step_id = StepId(k - 1)
    /\ Res[k].action = Steps[k].action
    /\ Res[k].status = status

\* C1: with stop_on_error true or absent, the returned results are exactly the
\* steps up to and including the first step whose _execute_step call raised
\* (all steps, each "success", when none raised); no later step is called, and
\* an "error" entry can only be the last entry.
C1_ResultsArePrefixToFirstRaise ==
    (Returned /\ StopOnError(playbook)) =>
        LET m == IF RaisedCalls = {} THEN NSteps
                 ELSE calls[1][Min(RaisedCalls)].step + 1
        IN  /\ Len(Res) = m
            /\ \A k \in 1..m :
                 EntryIs(k, IF RaisedCalls # {} /\ k = m THEN "error" ELSE "success")
            /\ \A k \in 1..Len(calls[1]) : calls[1][k].step < m
            /\ \A k \in 1..Len(Res) : Res[k].status = "error" => k = Len(Res)

\* C2: with stop_on_error false, _execute_step is called exactly once per
\* step, in playbook order, and the returned results hold exactly one entry
\* per step, in the same order.
C2_OneEntryPerStepInOrder ==
    (Returned /\ ~StopOnError(playbook)) =>
        /\ Len(calls[1]) = NSteps
        /\ \A k \in 1..Len(calls[1]) : calls[1][k].step = k - 1
        /\ Len(Res) = NSteps
        /\ \A k \in 1..Len(Res) :
             Res[k].step_id = StepId(k - 1) /\ Res[k].action = Steps[k].action

\* The navigation of the step behind entry e failed: the URL is no http(s)
\* URL, or the handler returned success = false.
NavigationFailed(e) ==
    /\ e.action = "navigate"
    /\ \/ ~StartsWithHttp(Steps[EntryStep(e) + 1].url)
       \/ (e.status = "success" /\ ~e.result.success)

\* C3: a navigate step whose navigation fails is recorded with status
\* "error", and with stop_on_error true or absent the run halts there.
C3_FailedNavigateIsError ==
    \A k \in 1..Len(results[1]) :
        NavigationFailed(results[1][k]) =>
            /\ results[1][k].status = "error"
            /\ StopOnError(playbook) => k = Len(results[1])

\* C4: execute never raises to its caller, and what it returns carries
\* status "completed", the results and the tracker summary.
C4_ExecuteNeverRaises ==
    /\ pc[1] # "raised"
    /\ Returned =>
         /\ ret[1].status = "completed"
         /\ ret[1].results = results[1]
         /\ ret[1].summary = GetSummary(trackers[1])

\* The error updates of step i (0-based) in the log of tracker t.
ErrorUpdatesOf(t, i) ==
    {u \in 1..Len(t.updates) :
        /\ t.updates[u].level = "error"
        /\ t.updates[u].message[1] = "Step failed"
        /\ t.updates[u].message[2] = i + 1}
EntriesOf(i) == {k \in 1..Len(Res) : EntryStep(Res[k]) = i}

\* What execute's result shows of a call c of _execute_step that raised: one
\* entry, with status "error" and the error text, one error update, every
\* earlier step present, and the stop_on_error decision.
HandledAsFailure(c) ==
    LET i == calls[1][c].step
    IN  /\ Cardinality(EntriesOf(i)) = 1
        /\ \A k \in EntriesOf(i) :
             /\ Res[k].status = "error"
             /\ Res[k].action = Steps[i + 1].action
             /\ Len(Res[k].error) > 0
             /\ StopOnError(playbook) => k = Len(Res)
             /\ \A j \in 0..(i - 1) : \E k2 \in 1..(k - 1) : EntryStep(Res[k2]) = j
        /\ Cardinality(ErrorUpdatesOf(trackers[1], i)) = 1
        /\ IF StopOnError(playbook) THEN c = Len(calls[1])
           ELSE i + 1 < NSteps => (c < Len(calls[1]) /\ calls[1][c + 1].step = i + 1)

\* C5: a step whose action is in no dispatch table is handled like a step
\* whose handler raises: its _execute_step call raises without a handler being
\* called, after the steps before it were run, and every call that raised,
\* for either reason, shows in the returned result in the same way.
C5_UnknownActionIsStepFailure ==
    /\ \A c \in 1..Len(calls[1]) :
         Steps[calls[1][c].step + 1].action \notin ActionMap =>
            /\ calls[1][c].kind = "raise"
            /\ ~calls[1][c].handler
            /\ \A j \in 0..(calls[1][c].step - 1) : \E c2 \in 1..(c - 1) : calls[1][c2].step = j
    /\ pc[1] = "except" /\ Steps[idx[1] + 1].action \notin ActionMap /\ ~calls[1][Len(calls[1])].handler
         => err[1] = <<"Unknown action", Steps[idx[1] + 1].action>>
    /\ Returned => \A c \in RaisedCalls : HandledAsFailure(c)

\* An unknown action after a step that ran, in a returned result.
C5_Witness ==
    /\ Returned
    /\ Len(Res) = 2
    /\ Res[1].status = "success"
    /\ Res[2].status = "error"
    /\ Res[2].action = "bogus_action"
    /\ Res[2].error = <<"Unknown action", "bogus_action">>

\* C6: a step carrying one of the nine names of the vocabulary is dispatched
\* to a handler, never rejected as an unknown action.
C6_VocabularyIsDispatched ==
    \A c \in 1..Len(calls[1]) :
        Steps[calls[1][c].step + 1].action \in Vocabulary => calls[1][c].handler

\* The updates of step i (0-based) in the log of the run's tracker: its info
\* update, and its success and error updates.
RunUpdates == trackers[1].updates
StepInfoUpdates(i) ==
    {u \in 1..Len(RunUpdates) :
        RunUpdates[u].message[1] = "Executing step" /\ RunUpdates[u].message[2] = i + 1}
StepOutcomeUpdates(i) ==
    {u \in 1..Len(RunUpdates) :
        /\ RunUpdates[u].message[1] \in {"Step completed successfully", "Step failed"}
        /\ RunUpdates[u].message[2] = i + 1}
AttemptedSteps == {calls[1][c].step : c \in 1..Len(calls[1])}

\* C23: in the log of the tracker of a run that returned, the first update is
\* the phase-start info update sized to len(steps), the last one the
\* phase-complete success update, and every attempted step has one info
\* update, then one success or error update, then the info update of the next
\* attempted step.
C23_UpdateLogOrder ==
    Returned =>
        /\ RunUpdates[1].level = "info"
        /\ RunUpdates[1].message[1] = "Starting phase"
        /\ RunUpdates[1].metadata.total_phases = NSteps
        /\ RunUpdates[Len(RunUpdates)].level = "success"
        /\ RunUpdates[Len(RunUpdates)].message[1] = "Completed phase"
        /\ \A i \in AttemptedSteps :
             /\ Cardinality(StepInfoUpdates(i)) = 1
             /\ Cardinality(StepOutcomeUpdates(i)) = 1
             /\ \A a \in StepInfoUpdates(i), b \in StepOutcomeUpdates(i) :
                  /\ 1 < a /\ a < b /\ b < Len(RunUpdates)
                  /\ RunUpdates[a].level = "info"
                  /\ RunUpdates[b].level \in {"success", "error"}
                  /\ \A n \in StepInfoUpdates(i + 1) : b < n

\* C27: each step contributes at most one entry to results, at every point
\* of an execute call: results is never longer than steps and no step has two
\* entries.
C27_AtMostOneEntryPerStep ==
    /\ Len(results[1]) <= NSteps
    /\ \A j, k \in 1..Len(results[1]) :
         EntryStep(results[1][j]) = EntryStep(results[1][k]) => j = k

\* Percentage p is at most percentage q.
PctLeq(p, q) == p[1] * q[2] <= q[1] * p[2]

\* C28: in the log of the run's tracker, the progress values never decrease
\* in emission order, the updates without progress left aside: phase-start,
\* per-step info updates and phase-complete form a non-decreasing sequence.
C28_ProgressNeverDecreases ==
    1 \in DOMAIN trackers =>
        \A j, k \in 1..Len(RunUpdates) :
            (j < k /\ RunUpdates[j].progress # NoProgress /\ RunUpdates[k].progress # NoProgress)
                => PctLeq(RunUpdates[j].progress, RunUpdates[k].progress)

\* The updates of summary sm whose message starts with kind.
SummaryUpdates(sm, kind) == {u \in 1..Len(sm.updates) : sm.updates[u].message[1] = kind}

\* C25: the summary an execute call returns holds the updates of that run and
\* no other: one phase-start, as its first update, one phase-complete, as its
\* last, phases_completed = 1, and as many step info updates as the run
\* attempted steps, also when the other call on the same executor started
\* before this one finished.
C25_SummaryIsOwnRun ==
    \A r \in Runs :
        pc[r] = "returned" =>
            LET sm == ret[r].summary
            IN  /\ sm.phases_completed = 1
                /\ sm.total_updates = Len(sm.updates)
                /\ SummaryUpdates(sm, "Starting phase") = {1}
                /\ SummaryUpdates(sm, "Completed phase") = {Len(sm.updates)}
                /\ Cardinality(SummaryUpdates(sm, "Executing step")) = Len(calls[r])

(***************************************************************************)
(* Claims about PlaywrightController (SpecCtrl)                            *)
(***************************************************************************)

IsPrefix(s, t) == Len(s) <= Len(t) /\ SubSeq(t, 1, Len(s)) = s

\* C7: every navigate call that returns true has appended exactly one entry
\* to screenshots, named "page_load".
C7_NavigateTrueAddsPageLoad ==
    [][(last'.op = "navigate" /\ last'.ret = "true") =>
          /\ Len(screenshots') = Len(screenshots) + 1
          /\ SubSeq(screenshots', 1, Len(screenshots)) = screenshots
          /\ screenshots'[Len(screenshots')].name = <<"page_load">>]_vars

\* C8: take_screenshot appends exactly one entry, holding the data it returns,
\* when it returns data, and nothing when it returns None; for a selector that
\* matches no element it returns None, and it never raises.
C8_ScreenshotAppendsOnlyOnSuccess ==
    [][last'.op = "take_screenshot" =>
          /\ last'.ret \in {"data", "none"}
          /\ last'.ret = "data" =>
                /\ Len(screenshots') = Len(screenshots) + 1
                /\ SubSeq(screenshots', 1, Len(screenshots)) = screenshots
                /\ screenshots'[Len(screenshots')].data = last'.data
                /\ last'.data # NoData
          /\ last'.ret = "none" => screenshots' = screenshots
          /\ (Truthy(last'.selector) /\ last'.page = "not_found") => last'.ret = "none"]_vars

\* A selector that matched nothing, after a screenshot that was taken.
C8_Witness ==
    /\ last.op = "take_screenshot"
    /\ last.selector = "#el"
    /\ last.page = "not_found"
    /\ last.ret = "none"
    /\ Len(screenshots) = 1
    /\ screenshots[1].name = <<"user_requested">>

\* C9: findings has exactly the keys high, medium, low and info.
C9_FindingsKeys == DOMAIN findings = {"high", "medium", "low", "info"}

\* A check-suite call that failed after one that recorded findings.
C9_Witness ==
    /\ last.op = "run_security_checks"
    /\ last.ret = "error"
    /\ \E i \in 1..Len(findings["medium"]) : findings["medium"][i].type = "accessibility"
    /\ findings["high"] # <<>>

\* C10: screenshots and each findings list only grow at their end: no call
\* removes, reorders, replaces or resets what they hold.
C10_ListsAppendOnly ==
    [][/\ IsPrefix(screenshots, screenshots')
       /\ \A s \in DOMAIN findings :
            s \in DOMAIN findings' /\ IsPrefix(findings[s], findings'[s])]_vars

\* A controller closed with a screenshot and a finding in its lists.
C10_Witness ==
    /\ last.op = "close"
    /\ ~is_initialized
    /\ screenshots # <<>>
    /\ findings["medium"] # <<>>

\* What each action method returns on a controller that is not initialized.
FailureValue(op) ==
    CASE op \in {"navigate", "fill_form"} -> "false"
      [] op = "take_screenshot" -> "none"
      [] op = "extract_form_fields" -> "empty"
      [] OTHER -> "error"

ActionMethods ==
    {"navigate", "fill_form", "take_screenshot", "extract_form_fields",
     "check_accessibility", "check_responsive_design", "run_security_checks",
     "test_login_form", "get_test_report"}

\* C12: on a controller that is not initialized (never, failed or closed)
\* every action method returns its failure value, without raising, and leaves
\* screenshots, findings and is_initialized as they were.
C12_UninitializedReturnsFailure ==
    [][(~is_initialized /\ last'.op \in ActionMethods /\ ncalls' = ncalls + 1) =>
          /\ last'.ret = FailureValue(last'.op)
          /\ screenshots' = screenshots
          /\ findings' = findings
          /\ is_initialized' = is_initialized]_vars

\* A suite called on a controller whose initialize failed half-way.
C12_Witness ==
    /\ ~is_initialized
    /\ "browser" \in handles
    /\ last.op = "get_test_report"
    /\ last.ret = "error"

\* C13: no exception leaves navigate, take_screenshot, fill_form,
\* check_accessibility, check_responsive_design, run_security_checks,
\* get_test_report or close: a call whose browser or page action failed
\* returned its failure value.
C13_NoExceptionEscapes ==
    last.op \in {"navigate", "take_screenshot", "fill_form", "check_accessibility",
                 "check_responsive_design", "run_security_checks", "get_test_report",
                 "close"}
        => last.ret # "raised"

\* C14: the result check_responsive_design returns on an initialized
\* controller called with N breakpoints holds exactly N entries, in input
\* order, and entry k carries the data of the screenshots entry named
\* breakpoint_{name of k} that the call appended.
C14_OneEntryPerBreakpointWithScreenshot ==
    [][(is_initialized /\ last'.op = "check_responsive_design" /\ ncalls' = ncalls + 1
          /\ last'.ret = "result") =>
          /\ Len(last'.breakpoints) = Len(last'.input)
          /\ \A k \in 1..Len(last'.breakpoints) :
                /\ last'.breakpoints[k].name = last'.input[k].name
                /\ last'.breakpoints[k].width = last'.input[k].width
                /\ last'.breakpoints[k].height = last'.input[k].height
                /\ \E j \in (Len(screenshots) + 1)..Len(screenshots') :
                      /\ screenshots'[j].name = <<"breakpoint", last'.input[k].name>>
                      /\ screenshots'[j].data = last'.breakpoints[k].screenshot
                      /\ screenshots'[j].data # NoData]_vars

\* What a call added to the findings list of severity s.
Added(s) == SubSeq(findings'[s], Len(findings[s]) + 1, Len(findings'[s]))
Descriptions(seq) == [k \in 1..Len(seq) |-> seq[k].description]
IssuesOf(issues, s) == SelectSeq(issues, LAMBDA i : i.severity = s)

\* C15: run_security_checks only appends to the findings lists; a page URL
\* that is not https adds "Site is not using HTTPS" to findings[high]; and a
\* call that returns its result added one high finding for a non-https URL and
\* one per password form posting to http:, one medium finding when the
\* Content-Security-Policy header is missing, one low finding when
\* X-Frame-Options is missing and nothing else, the returned issues being
\* those findings with the severity of the list each went to.
C15_SecuritySeverities ==
    [][(is_initialized /\ last'.op = "run_security_checks" /\ ncalls' = ncalls + 1) =>
          /\ \A s \in Severities : IsPrefix(findings[s], findings'[s])
          /\ page_url.scheme # "https" =>
                /\ Added("high") # <<>>
                /\ Added("high")[1].description = "Site is not using HTTPS"
          /\ last'.ret = "result" =>
                LET has_csp == last'.input[1]
                    has_x_frame_options == last'.input[2]
                    forms == last'.input[3]
                    insecure == {k \in 1..Len(forms) :
                                    forms[k].hasPassword /\ forms[k].action.scheme = "http"}
                IN  /\ Len(Added("high")) =
                          (IF page_url.scheme # "https" THEN 1 ELSE 0) + Cardinality(insecure)
                    /\ Len(Added("medium")) = IF has_csp THEN 0 ELSE 1
                    /\ Len(Added("low")) = IF has_x_frame_options THEN 0 ELSE 1
                    /\ Added("info") = <<>>
                    /\ ~has_csp =>
                          Added("medium")[1].description = "No Content Security Policy header"
                    /\ ~has_x_frame_options =>
                          Added("low")[1].description = "No X-Frame-Options header"
                    /\ \A k \in 2..Len(Added("high")) :
                          Added("high")[k].description = "Password form submitting over HTTP"
                    /\ Len(last'.issues) =
                          Len(Added("high")) + Len(Added("medium")) + Len(Added("low"))
                    /\ \A s \in Severities :
                          Descriptions(IssuesOf(last'.issues, s)) = Descriptions(Added(s))]_vars

\* A successful call on a plain-http page with a password form posting to
\* http: and neither header.
C15_Witness ==
    /\ last.op = "run_security_checks"
    /\ last.ret = "result"
    /\ Len(last.issues) = 4
    /\ Len(findings["high"]) = 2
    /\ Len(findings["medium"]) = 1
    /\ Len(findings["low"]) = 1

\* The number of findings the controller holds, over the four severities.
TotalFindings ==
    Len(findings["high"]) + Len(findings["medium"]) + Len(findings["low"])
        + Len(findings["info"])

\* C16: the summary of a report get_test_report returns says "No issues were
\* found." when the controller holds no finding, and otherwise gives the total
\* number of findings and the numbers of high, medium and low findings, each
\* the length of its findings list.
C16_ReportSummaryCounts ==
    (last.op = "get_test_report" /\ last.ret = "result") =>
        IF TotalFindings = 0
        THEN last.report.summary.phrase = "No issues were found."
        ELSE /\ last.report.summary.phrase # "No issues were found."
             /\ last.report.summary.counts =
                   <<TotalFindings, Len(findings["high"]), Len(findings["medium"]),
                     Len(findings["low"])>>

\* A report on a controller holding a high and a low finding.
C16_Witness ==
    /\ last.op = "get_test_report"
    /\ last.ret = "result"
    /\ findings["high"] # <<>>
    /\ findings["low"] # <<>>
    /\ last.report.summary.counts[1] >= 2

\* C29: a run_security_checks call that returns an error record leaves
\* findings exactly as it was before the call.
C29_SecurityChecksAllOrNothing ==
    [][(is_initialized /\ last'.op = "run_security_checks" /\ ncalls' = ncalls + 1
          /\ last'.ret = "error") => findings' = findings]_vars

\* C30: between calls, is_initialized is false exactly when the playwright,
\* browser, context and page handles are all unset.
C30_HandlesIffInitialized ==
    ~is_initialized <=> handles = {}

(***************************************************************************)
(* Claims about the controller's lifecycle (SpecSession)                   *)
(***************************************************************************)

\* C26: the first line of next_steps in a report get_test_report returns is
\* the "Address the identified issues" line when the controller holds at
\* least one finding, of any severity, and the "Run additional test types"
\* line when it holds none.
C26_NextStepsFirstLine ==
    (last.op = "get_test_report" /\ last.ret = "result") =>
        last.report.next_steps[1] =
            IF TotalFindings > 0
            THEN "1. Address the identified issues starting with high-priority items"
            ELSE "1. Run additional test types to ensure comprehensive coverage"

\* C11: a close() that returns on an initialized controller leaves it
\* uninitialized with context, browser and playwright released, and a
\* re-initialization right after a close that succeeds leaves the controller
\* initialized with an empty screenshots list and four empty findings lists.
C11_CloseThenReinitIsFresh ==
    [][/\ (is_initialized /\ last'.op = "close" /\ last'.ret = "none") =>
            /\ ~is_initialized'
            /\ handles' \cap {"context", "browser", "playwright"} = {}
       /\ (~is_initialized /\ last.op = "close" /\ last.ret = "none"
             /\ last'.op \in {"initialize", "get_controller"}
             /\ last'.ret \in {"true", "controller"}) =>
            /\ is_initialized'
            /\ screenshots' = <<>>
            /\ findings' = NewFindings]_vars

(***************************************************************************)
(* Claims about ProgressContext and ProgressTracker (SpecScope)            *)
(***************************************************************************)

Updates == ptracker.updates
\* The updates that close a scope.
TerminalUpdates == {k \in 1..Len(Updates) : Updates[k].message[1] \in {"Completed", "Error in"}}

\* C17: a scope that was entered and left has logged "Starting {name}" as an
\* info update first and exactly one terminal update, as its last update: the
\* success update "Completed {name}" when the body ended normally, the error
\* update carrying the exception text when the body raised, and then the
\* body's exception is the one that reaches the caller of the scope.
C17_ScopeTerminalUpdate ==
    ppc = "left" =>
        /\ Updates[1] = ProgressUpdate(<<"Starting", ctx.operation_name>>, "info", NoProgress, <<>>)
        /\ TerminalUpdates = {Len(Updates)}
        /\ IF bodyExc = NoExc
           THEN /\ Updates[Len(Updates)].level = "success"
                /\ Updates[Len(Updates)].message = <<"Completed", ctx.operation_name>>
           ELSE /\ Updates[Len(Updates)].level = "error"
                /\ Updates[Len(Updates)].message = <<"Error in", ctx.operation_name, bodyExc>>
                /\ Updates[Len(Updates)].metadata = [exception |-> bodyExc]
                /\ scopeExc = bodyExc

\* The updates step() logged.
StepUpdates == SelectSeq(Updates, LAMBDA u : u.message = <<"step message">>)
\* The percentage p is exactly 100.
IsHundred(p) == p # NoProgress /\ p[1] * 100 = 100 * p[2]

\* C18: with total_steps = N > 0 and every step() called with increment 1,
\* the k-th step() logs an info update with step = k and progress k/N*100, the
\* N-th one exactly 100, and after a normal exit the tracker's last update has
\* level success.
C18_StepProgress ==
    (ctx.total_steps > 0 /\ \A i \in 1..Len(stepCalls) : stepCalls[i] = 1) =>
        /\ Len(StepUpdates) = Len(stepCalls)
        /\ \A k \in 1..Len(StepUpdates) :
             /\ StepUpdates[k].level = "info"
             /\ StepUpdates[k].metadata.step = k
             /\ StepUpdates[k].progress = Pct(k, ctx.total_steps)
             /\ k = ctx.total_steps => IsHundred(StepUpdates[k].progress)
        /\ (ppc = "left" /\ bodyExc = NoExc) => Updates[Len(Updates)].level = "success"

\* Three steps of three, then a normal exit.
C18_Witness ==
    /\ ctx.total_steps = 3
    /\ stepCalls = <<1, 1, 1>>
    /\ ppc = "left"
    /\ bodyExc = NoExc
    /\ IsHundred(StepUpdates[3].progress)

\* d is the serialised form of update u as the claim describes it.
SerialisedAs(d, u) ==
    /\ {"message", "level", "timestamp"} \subseteq DOMAIN d
    /\ DOMAIN d \subseteq {"message", "level", "timestamp", "progress", "metadata"}
    /\ d["message"] = u.message
    /\ d["level"] = u.level
    /\ "progress" \in DOMAIN d <=> u.progress # NoProgress
    /\ "progress" \in DOMAIN d => d["progress"] = u.progress
    /\ "metadata" \in DOMAIN d <=> DOMAIN u.metadata # {}
    /\ "metadata" \in DOMAIN d => d["metadata"] = u.metadata

\* C19: to_dict of every update, as get_summary serialises it and as the
\* callback received it, holds message, level and timestamp, holds progress
\* exactly when one was supplied (0 included) and metadata exactly when some
\* was supplied, each with the supplied value.
C19_ToDictKeys ==
    \A k \in 1..Len(Updates) :
        /\ SerialisedAs(ToDict(Updates[k]), Updates[k])
        /\ (ptracker.callback /\ k <= Len(delivered)) => SerialisedAs(delivered[k], issued[k])

\* A supplied progress of 0 without metadata, and metadata without progress,
\* both delivered to a callback.
C19_Witness ==
    /\ ptracker.callback
    /\ \E k \in 1..Len(delivered) :
         /\ issued[k].progress = Pct(0, 1)
         /\ DOMAIN delivered[k] = {"message", "level", "timestamp", "progress"}
    /\ \E k \in 1..Len(delivered) :
         /\ issued[k].level = "warning"
         /\ DOMAIN delivered[k] = {"message", "level", "timestamp", "metadata"}

\* C20: the log only grows at its end and is the update calls in call order,
\* one entry per call; a set callback was invoked once per call, in the same
\* order, with the serialised form of that call's update.
C20_UpdatesInCallOrder ==
    [][/\ IsPrefix(Updates, ptracker'.updates)
       /\ IsPrefix(delivered, delivered')
       /\ ptracker'.updates = issued'
       /\ delivered' = IF ptracker'.callback
                       THEN [k \in 1..Len(issued') |-> ToDict(issued'[k])]
                       ELSE <<>>]_vars

\* A scope left by the exception of a callback that had received every
\* update, the last one included.
C20_Witness ==
    /\ ppc = "left"
    /\ scopeExc = CallbackError
    /\ Len(delivered) >= 4
    /\ Len(delivered) = Len(Updates)

\* C21: a tracker call (update, a level wrapper, start_phase, complete_phase,
\* and the updates of the scope) raises exactly when its callback failed: never
\* without a callback or with a callback that returns, and always when the
\* callback raises, the exception then reaching the caller: the scope is left
\* with it when it is raised on entry or on exit.
C21_OnlyCallbackFailureRaises ==
    /\ Len(outcomes) = Len(issued)
    /\ \A k \in 1..Len(outcomes) :
         /\ outcomes[k].raised <=> outcomes[k].failed
         /\ outcomes[k].raised => ptracker.callback
    /\ ppc = "raised" <=> (Len(outcomes) = 1 /\ outcomes[1].raised)
    /\ ppc = "raised" => scopeExc = CallbackError
    /\ ppc = "left" =>
         scopeExc = IF outcomes[Len(outcomes)].raised THEN CallbackError ELSE bodyExc

\* A complete_phase call whose callback failed raised into the body, which
\* ended with that exception, after calls that returned.
C21_Witness ==
    /\ ptracker.callback
    /\ ppc = "left"
    /\ bodyExc = CallbackError
    /\ \E k \in 2..Len(outcomes) :
         /\ outcomes[k].raised
         /\ issued[k].message[1] = "Completed phase"
         /\ ~outcomes[k - 1].raised

\* The percentage p lies between 0 and 100.
IsPercent(p) == 0 <= p[1] /\ p[1] <= p[2]

\* C22: every update of the log carries no progress or a percentage between
\* 0 and 100, and the update of a start_phase or complete_phase call carries
\* phases_completed/total_phases*100 when total_phases > 0 and none otherwise.
C22_ProgressIsPercent ==
    \A k \in 1..Len(Updates) :
        LET u == Updates[k]
        IN  /\ u.progress = NoProgress \/ IsPercent(u.progress)
            /\ u.message[1] \in {"Starting phase", "Completed phase"} =>
                  u.progress = IF u.metadata.total_phases > 0
                               THEN Pct(u.metadata.phases_completed, u.metadata.total_phases)
                               ELSE NoProgress

(***************************************************************************)
(* Claims about get_controller (SpecSingleton)                             *)
(***************************************************************************)

\* The instances whose browser is launched and not closed.
OpenBrowsers == {i \in 1..Len(insts) : "browser" \in insts[i].handles}

\* C24: under every interleaving of get_controller calls, at most one browser
\* is launched and not closed, and two calls that returned different instances
\* are separated by a close of one of them.
C24_SingleControllerAndBrowser ==
    /\ Cardinality(OpenBrowsers) <= 1
    /\ \A j, k \in 1..Len(rets) :
         rets[j] # rets[k] => insts[rets[j]].closed \/ insts[rets[k]].closed
====
